---- MODULE Spec2Model ----
\* A model of openhands/memory/memory.py (LongTermMemory and the retry wrapper
\* around get_embeddings) and of openhands/events/event.py (Event).
EXTENDS Integers, Sequences, FiniteSets, TLC

VARIABLES
    LLAMA_INDEX_AVAILABLE, \* whether the import of the indexing stack succeeded
    attrs,              \* the attributes the LongTermMemory instance has
    memory_max_threads, \* the permit count LongTermMemory was constructed with
    sema,               \* self.sema: the number of free permits
    thought_idx,        \* self.thought_idx
    add_threads,        \* self._add_threads: one record per thread, in append order
    index,              \* self.index: the documents the vector index holds
    caller,             \* how the calling thread's last call ended
    num_retries,        \* the module's num_retries when the wrapper is built
    retry_state,        \* one wrapper_get_embeddings call: tenacity's RetryCallState
    ev,                 \* one Event instance: its attributes, name -> value
    ev_op               \* the last accessor used on ev, and what it gave

memVars == <<memory_max_threads, sema, thought_idx, add_threads, index, caller>>

ctorVars == <<LLAMA_INDEX_AVAILABLE, attrs>>

retryVars == <<num_retries, retry_state>>

evVars == <<ev, ev_op>>

vars == <<ctorVars, memVars, retryVars, evVars>>

\* ---------------------------------------------------------------- bounds

MaxEvents == 3
MaxPermits == 2
MaxK == 2
MaxTimeout == 2

\* ---------------------------------------------------------------- values

None == "None"

\* The classes retry_if_exception_type names.
TransientErrors == {"RateLimitError", "APIConnectionError", "InternalServerError"}

\* An error class outside that tuple.
OtherErrors == {"AuthenticationError"}

Errors == TransientErrors \cup OtherErrors

\* Optional values of an Event: None is the empty set, a value v is {v}.
PyNone == {}

Some(v) == {v}

\* num_retries, retry_min_wait, retry_max_wait as the module sets them.
NumRetriesDefault == 10
NumRetriesFallback == 1
retry_min_wait == 3
retry_max_wait == 300

\* memory_max_threads: int = 1
DefaultMaxThreads == 1

\* The attributes __init__ sets on the instance.
StoreAttrs == {"collection", "index", "sema", "thought_idx", "_add_threads"}

\* The errors index.insert is made to raise: one the wrapper re-raises after its
\* last attempt, and one it does not retry.
InsertErrors == {"RateLimitError", "AuthenticationError"}

\* The error retriever.retrieve is made to raise.
QueryErrors == {"APIConnectionError"}

\* Event mappings as add_event receives them: key/value pairs in the dict's
\* order. These two are the calls of the store under concurrency.
Events ==
    { << <<"action", "run_command">> >>,
      << <<"observation", "output: ok">> >> }

\* The mappings the tagging is checked on: no key, neither of the two keys, one
\* of them, both in either order, and a value that is the other key's name.
TagEvents ==
    Events \cup
    { << >>,
      << <<"content", "hello">> >>,
      << <<"action", "run_command">>, <<"observation", "output: ok">> >>,
      << <<"observation", "output: ok">>, <<"action", "run_command">> >>,
      << <<"observation", "action">>, <<"content", "hello">> >> }

\* 'key in event'
HasKey(event, key) == \E i \in 1..Len(event) : event[i][1] = key

\* event[key]
Lookup(event, key) ==
    event[CHOOSE i \in 1..Len(event) : event[i][1] = key][2]

\* json.dumps(event): {"k": "v", "k2": "v2"}
RECURSIVE DumpItems(_)
DumpItems(event) ==
    IF Len(event) = 0 THEN ""
    ELSE "\"" \o event[1][1] \o "\": \"" \o event[1][2] \o "\""
         \o (IF Len(event) = 1 THEN "" ELSE ", " \o DumpItems(Tail(event)))

dumps(event) == "{" \o DumpItems(event) \o "}"

Digits == <<"0", "1", "2", "3", "4", "5", "6", "7", "8", "9">>

\* str(n) for a natural number
RECURSIVE str(_)
str(n) == IF n < 10 THEN Digits[n + 1] ELSE str(n \div 10) \o Digits[(n % 10) + 1]

\* The kind tag with the two keys checked in the other order.
EventType_observation_first(event) ==
    IF HasKey(event, "observation") THEN "observation"
    ELSE IF HasKey(event, "action") THEN "action"
    ELSE ""

\* The kind tag add_event computes.
EventType(event) ==
    IF HasKey(event, "action") THEN "action"
    ELSE IF HasKey(event, "observation") THEN "observation"
    ELSE ""

\* The source id taken to be the key found, as the kind tag is.
EventId_key(event) ==
    IF HasKey(event, "action") THEN "action"
    ELSE IF HasKey(event, "observation") THEN "observation"
    ELSE ""

\* The source id add_event computes.
EventId(event) ==
    IF HasKey(event, "action") THEN Lookup(event, "action")
    ELSE IF HasKey(event, "observation") THEN Lookup(event, "observation")
    ELSE ""

\* Document(text=..., doc_id=..., extra_info={...})
Document(event, idx) ==
    [ text |-> dumps(event),
      doc_id |-> str(idx),
      extra_info |-> [type |-> EventType(event), id |-> EventId(event), idx |-> idx] ]

\* threading.Thread(target=self._add_doc, args=(doc,)) once started: the thread
\* is at the gate, and has called index.insert no time yet.
Thread(doc) == [doc |-> doc, pc |-> "gate", exc |-> None, inserts |-> 0]

Workers == 1..Len(add_threads)

Inside == {w \in Workers : add_threads[w].pc = "insert"}

\* ---------------------------------------------------------------- idle parts

\* No wrapper_get_embeddings call is under way.
RetryIdle ==
    /\ num_retries = NumRetriesDefault
    /\ retry_state = [pc |-> "idle", attempt_number |-> 1, outcome |-> None,
                      result |-> None, exc |-> None,
                      sleep |-> 0, slept |-> 0, logged |-> <<>>]

\* No Event instance is looked at.
EvIdle ==
    /\ ev = [_message |-> <<>>, _id |-> <<>>, _timestamp |-> <<>>, _source |-> <<>>,
             _cause |-> <<>>, _timeout |-> <<>>, blocking |-> <<>>]
    /\ ev_op = [name |-> "none", value |-> PyNone]

\* LongTermMemory has not been constructed.
MemIdle ==
    /\ LLAMA_INDEX_AVAILABLE = TRUE
    /\ attrs = {}
    /\ memory_max_threads = DefaultMaxThreads
    /\ sema = 0
    /\ thought_idx = 0
    /\ add_threads = <<>>
    /\ index = {}
    /\ caller = [op |-> "none", event |-> <<>>, k |-> 0,
                retrieved |-> <<>>, ret |-> None, exc |-> None]

\* ---------------------------------------------------------------- LongTermMemory

\* LongTermMemory(llm_config, memory_max_threads)
MemInit ==
    /\ LLAMA_INDEX_AVAILABLE = TRUE
    /\ attrs = StoreAttrs
    /\ memory_max_threads \in DefaultMaxThreads..MaxPermits
    /\ sema = memory_max_threads
    /\ thought_idx = 0
    /\ add_threads = <<>>
    /\ index = {}
    /\ caller = [op |-> "none", event |-> <<>>, k |-> 0,
                retrieved |-> <<>>, ret |-> None, exc |-> None]

Init == MemInit /\ RetryIdle /\ EvIdle

\* add_event with the index taken after the increment.
add_event_late_idx(event) ==
    /\ LET doc == Document(event, thought_idx + 1) IN
        /\ thought_idx' = thought_idx + 1
        /\ add_threads' = Append(add_threads, Thread(doc))
    /\ caller' = [op |-> "add_event", event |-> event, k |-> 0,
                  retrieved |-> <<>>, ret |-> None, exc |-> None]
    /\ UNCHANGED <<ctorVars, memory_max_threads, sema, index, retryVars, evVars>>

\* add_event running _add_doc(doc) itself instead of starting the thread.
add_event_sync(event) ==
    /\ sema > 0
    /\ LET doc == Document(event, thought_idx) IN
        /\ thought_idx' = thought_idx + 1
        /\ add_threads' = Append(add_threads,
                                 [Thread(doc) EXCEPT !.pc = "done", !.inserts = 1])
        /\ index' = index \cup {doc}
    /\ caller' = [op |-> "add_event", event |-> event, k |-> 0,
                  retrieved |-> <<>>, ret |-> None, exc |-> None]
    /\ UNCHANGED <<ctorVars, memory_max_threads, sema, retryVars, evVars>>

\* add_event starting the thread without putting it on the registry.
add_event_no_append(event) ==
    /\ thought_idx' = thought_idx + 1
    /\ caller' = [op |-> "add_event", event |-> event, k |-> 0,
                  retrieved |-> <<>>, ret |-> None, exc |-> None]
    /\ UNCHANGED <<ctorVars, memory_max_threads, sema, add_threads, index, retryVars, evVars>>

add_event(event) ==
    /\ LET doc == Document(event, thought_idx) IN
        /\ thought_idx' = thought_idx + 1
        /\ add_threads' = Append(add_threads, Thread(doc))
    /\ caller' = [op |-> "add_event", event |-> event, k |-> 0,
                  retrieved |-> <<>>, ret |-> None, exc |-> None]
    /\ UNCHANGED <<ctorVars, memory_max_threads, sema, index, retryVars, evVars>>

\* _add_doc calling index.insert(doc) without waiting for a permit.
add_doc_acquire_no_wait(w) ==
    /\ w \in Workers
    /\ add_threads[w].pc = "gate"
    /\ sema' = sema - 1
    /\ add_threads' = [add_threads EXCEPT ![w].pc = "insert",
                                          ![w].inserts = @ + 1]
    /\ UNCHANGED <<ctorVars, memory_max_threads, thought_idx, index, caller, retryVars, evVars>>

\* A worker that numbers its document when it gets its permit, from the counter
\* as it then stands.
add_doc_acquire_late_doc(w) ==
    /\ w \in Workers
    /\ add_threads[w].pc = "gate"
    /\ sema > 0
    /\ sema' = sema - 1
    /\ add_threads' = [add_threads EXCEPT ![w].pc = "insert",
                                          ![w].inserts = @ + 1,
                                          ![w].doc.doc_id = str(thought_idx),
                                          ![w].doc.extra_info.idx = thought_idx]
    /\ UNCHANGED <<ctorVars, memory_max_threads, thought_idx, index, caller, retryVars, evVars>>

\* 'with self.sema:' entered: a permit is taken, index.insert(doc) is called.
add_doc_acquire(w) ==
    /\ w \in Workers
    /\ add_threads[w].pc = "gate"
    /\ sema > 0
    /\ sema' = sema - 1
    /\ add_threads' = [add_threads EXCEPT ![w].pc = "insert",
                                          ![w].inserts = @ + 1]
    /\ UNCHANGED <<ctorVars, memory_max_threads, thought_idx, index, caller, retryVars, evVars>>

\* _add_doc taking its thread off the registry when the insert has returned.
add_doc_return_unregister(w) ==
    /\ w \in Workers
    /\ add_threads[w].pc = "insert"
    /\ index' = index \cup {add_threads[w].doc}
    /\ sema' = sema + 1
    /\ add_threads' = SubSeq(add_threads, 1, w - 1)
                          \o SubSeq(add_threads, w + 1, Len(add_threads))
    /\ UNCHANGED <<ctorVars, memory_max_threads, thought_idx, caller, retryVars, evVars>>

\* index.insert(doc) returns; leaving the with block releases the permit.
add_doc_return(w) ==
    /\ w \in Workers
    /\ add_threads[w].pc = "insert"
    /\ index' = index \cup {add_threads[w].doc}
    /\ sema' = sema + 1
    /\ add_threads' = [add_threads EXCEPT ![w].pc = "done"]
    /\ UNCHANGED <<ctorVars, memory_max_threads, thought_idx, caller, retryVars, evVars>>

\* _add_doc catching the error and queueing the document again.
add_doc_raise_retry(w, e) ==
    /\ w \in Workers
    /\ add_threads[w].pc = "insert"
    /\ sema' = sema + 1
    /\ add_threads' = [add_threads EXCEPT ![w].pc = "gate", ![w].exc = e]
    /\ UNCHANGED <<ctorVars, memory_max_threads, thought_idx, index, caller, retryVars, evVars>>

\* _add_doc with acquire() and release() around the insert and no 'with': an
\* error skips the release.
add_doc_raise_no_release(w, e) ==
    /\ w \in Workers
    /\ add_threads[w].pc = "insert"
    /\ add_threads' = [add_threads EXCEPT ![w].pc = "failed", ![w].exc = e]
    /\ UNCHANGED <<ctorVars, memory_max_threads, sema, thought_idx, index, caller,
                   retryVars, evVars>>

\* index.insert(doc) raises e; leaving the with block releases the permit and
\* the error ends the thread.
add_doc_raise(w, e) ==
    /\ w \in Workers
    /\ add_threads[w].pc = "insert"
    /\ sema' = sema + 1
    /\ add_threads' = [add_threads EXCEPT ![w].pc = "failed", ![w].exc = e]
    /\ UNCHANGED <<ctorVars, memory_max_threads, thought_idx, index, caller, retryVars, evVars>>

\* The sequences of n distinct documents of s (all of s when it has fewer).
RECURSIVE Rankings(_, _)
Rankings(s, n) ==
    IF n = 0 \/ s = {} THEN {<<>>}
    ELSE UNION { { <<d>> \o r : r \in Rankings(s \ {d}, n - 1) } : d \in s }

\* VectorIndexRetriever(index, similarity_top_k=k).retrieve(query): the k most
\* similar documents, in the order the index ranks them for the query.
Retrieve(k) == Rankings(index, k)

\* The texts collected from the last result to the first.
Texts_reversed(results) ==
    [i \in 1..Len(results) |-> results[Len(results) + 1 - i].text]

\* [r.get_text() for r in results]
Texts(results) == [i \in 1..Len(results) |-> results[i].text]

\* search taking a permit around the query.
search_gated(k) ==
    /\ sema > 0
    /\ \E results \in Retrieve(k) :
        caller' = [op |-> "search", event |-> <<>>, k |-> k,
                   retrieved |-> results, ret |-> Texts(results), exc |-> None]
    /\ UNCHANGED <<ctorVars, memory_max_threads, sema, thought_idx, add_threads, index,
                   retryVars, evVars>>

search(k) ==
    /\ \E results \in Retrieve(k) :
        caller' = [op |-> "search", event |-> <<>>, k |-> k,
                   retrieved |-> results, ret |-> Texts(results), exc |-> None]
    /\ UNCHANGED <<ctorVars, memory_max_threads, sema, thought_idx, add_threads, index,
                   retryVars, evVars>>

\* retriever.retrieve(query) raises: the error leaves search.
search_raise(k, e) ==
    /\ caller' = [op |-> "search", event |-> <<>>, k |-> k,
                  retrieved |-> <<>>, ret |-> None, exc |-> e]
    /\ UNCHANGED <<ctorVars, memory_max_threads, sema, thought_idx, add_threads, index,
                   retryVars, evVars>>

Next ==
    \/ \E event \in Events : thought_idx < MaxEvents /\ add_event(event)
    \/ \E w \in 1..MaxEvents : add_doc_acquire(w)
    \/ \E w \in 1..MaxEvents : add_doc_return(w)
    \/ \E w \in 1..MaxEvents, e \in InsertErrors : add_doc_raise(w, e)
    \/ \E k \in 1..MaxK : search(k)
    \/ \E k \in 1..MaxK, e \in QueryErrors : search_raise(k, e)

Spec == Init /\ [][Next]_vars

\* The module is imported, with the indexing stack installed or not, and no
\* LongTermMemory has been constructed.
CtorInit ==
    /\ LLAMA_INDEX_AVAILABLE \in BOOLEAN
    /\ attrs = {}
    /\ memory_max_threads = DefaultMaxThreads
    /\ sema = 0
    /\ thought_idx = 0
    /\ add_threads = <<>>
    /\ index = {}
    /\ caller = [op |-> "none", event |-> <<>>, k |-> 0,
                retrieved |-> <<>>, ret |-> None, exc |-> None]

\* __init__ with the check of LLAMA_INDEX_AVAILABLE after the attributes are set.
LongTermMemory_init_check_last(n) ==
    /\ caller.op = "none"
    /\ attrs' = StoreAttrs
    /\ memory_max_threads' = n
    /\ sema' = n
    /\ thought_idx' = 0
    /\ add_threads' = <<>>
    /\ index' = {}
    /\ caller' = [caller EXCEPT !.op = "__init__",
                                !.exc = IF LLAMA_INDEX_AVAILABLE THEN None
                                        ELSE "ImportError"]
    /\ UNCHANGED <<LLAMA_INDEX_AVAILABLE, retryVars, evVars>>

\* LongTermMemory(llm_config, memory_max_threads=n)
LongTermMemory_init(n) ==
    /\ caller.op = "none"
    /\ IF ~LLAMA_INDEX_AVAILABLE
       THEN /\ caller' = [caller EXCEPT !.op = "__init__", !.exc = "ImportError"]
            /\ UNCHANGED <<attrs, memory_max_threads, sema, thought_idx,
                           add_threads, index>>
       ELSE /\ attrs' = StoreAttrs
            /\ memory_max_threads' = n
            /\ sema' = n
            /\ thought_idx' = 0
            /\ add_threads' = <<>>
            /\ index' = {}
            /\ caller' = [caller EXCEPT !.op = "__init__"]
    /\ UNCHANGED <<LLAMA_INDEX_AVAILABLE, retryVars, evVars>>

\* The constructor, then the calls on the instance it returned: a constructor
\* that raised has returned no instance to call anything on.
CtorNext ==
    \/ \E n \in DefaultMaxThreads..MaxPermits : LongTermMemory_init(n)
    \/ attrs # {} /\ Next

CtorStart == CtorInit /\ RetryIdle /\ EvIdle

CtorSpec == CtorStart /\ [][CtorNext]_vars

\* add_event called on one mapping after another.
TagNext == \E event \in TagEvents : thought_idx < MaxEvents /\ add_event(event)

TagSpec == Init /\ [][TagNext]_vars

\* ---------------------------------------------------------------- the retry wrapper

\* retry_if_exception_type() with no classes named: every error is retried.
RetryOn_any(outcome) == outcome \in Errors

\* retry=retry_if_exception_type((RateLimitError, APIConnectionError, InternalServerError))
RetryOn(outcome) == outcome \in TransientErrors

\* A stop that lets one attempt too many through.
Stop_one_late(attempt_number) == attempt_number > num_retries

\* stop=stop_after_attempt(num_retries)
Stop(attempt_number) == attempt_number >= num_retries

Min(a, b) == IF a < b THEN a ELSE b

Max(a, b) == IF a > b THEN a ELSE b

\* The window's upper limit with min left at the library's default of 0.
WaitHigh_no_min(n) == Max(0, Min(2 ^ (n - 1), retry_max_wait))

\* wait_exponential(min=retry_min_wait, max=retry_max_wait) after attempt n
WaitHigh(n) == Max(Max(0, retry_min_wait), Min(2 ^ (n - 1), retry_max_wait))

\* wait_random_exponential: a random wait up to WaitHigh(n), drawn from 0 (or,
\* in later releases of the library, from retry_min_wait).
Waits(n) == {0, retry_min_wait, WaitHigh(n)}

\* The module is imported: llama_openai.get_embeddings has __wrapped__ or has not.
RetryInit ==
    /\ num_retries \in {NumRetriesDefault, NumRetriesFallback}
    /\ retry_state = [pc |-> "attempt", attempt_number |-> 1, outcome |-> None,
                      result |-> None, exc |-> None,
                      sleep |-> 0, slept |-> 0, logged |-> <<>>]

\* original_get_embeddings(*args, **kwargs) returns ("ok") or raises o.
do_attempt(o) ==
    /\ retry_state.pc = "attempt"
    /\ retry_state' = [retry_state EXCEPT !.pc = "iter", !.outcome = o]
    /\ UNCHANGED <<ctorVars, num_retries, memVars, evVars>>

\* The outcome is not one to retry: the result is returned, the error raised.
iter_result ==
    /\ retry_state.pc = "iter"
    /\ ~RetryOn(retry_state.outcome)
    /\ retry_state' =
        IF retry_state.outcome = "ok"
        THEN [retry_state EXCEPT !.pc = "returned", !.result = "embeddings"]
        ELSE [retry_state EXCEPT !.pc = "raised", !.exc = retry_state.outcome]
    /\ UNCHANGED <<ctorVars, num_retries, memVars, evVars>>

\* attempt_on_error(retry_state): one error line per failed attempt.
attempt_on_error(rs) == <<rs.outcome, rs.attempt_number>>

\* The last attempt failed: after=attempt_on_error, then reraise=True.
iter_stop ==
    /\ retry_state.pc = "iter"
    /\ RetryOn(retry_state.outcome)
    /\ Stop(retry_state.attempt_number)
    /\ retry_state' = [retry_state EXCEPT !.pc = "raised",
                                          !.exc = retry_state.outcome,
                                          !.logged = attempt_on_error(retry_state)]
    /\ UNCHANGED <<ctorVars, num_retries, memVars, evVars>>

\* An attempt failed and another follows: after=attempt_on_error, the wait.
iter_sleep(s) ==
    /\ retry_state.pc = "iter"
    /\ RetryOn(retry_state.outcome)
    /\ ~Stop(retry_state.attempt_number)
    /\ s \in Waits(retry_state.attempt_number)
    /\ retry_state' = [retry_state EXCEPT !.pc = "attempt",
                                          !.outcome = None,
                                          !.attempt_number = @ + 1,
                                          !.sleep = s,
                                          !.slept = @ + 1,
                                          !.logged = attempt_on_error(retry_state)]
    /\ UNCHANGED <<ctorVars, num_retries, memVars, evVars>>

RetryNext ==
    \/ \E o \in {"ok"} \cup Errors : do_attempt(o)
    \/ iter_result
    \/ iter_stop
    \/ \E s \in 0..retry_max_wait : iter_sleep(s)

\* ---------------------------------------------------------------- claims: LongTermMemory

Terminated(w) == w \in Workers /\ add_threads[w].pc \in {"done", "failed"}

AtGate(w) == w \in Workers /\ add_threads[w].pc = "gate"

\* C1: the workers inside the index insert, between taking and giving back a
\* permit, are never more than memory_max_threads; with one permit, at most one.
C1_InsideWithinPermits ==
    /\ Cardinality(Inside) <= memory_max_threads
    /\ memory_max_threads = DefaultMaxThreads => Cardinality(Inside) <= 1

\* Every permit is held by an insert and another worker waits at the gate.
C1_Witness ==
    /\ Cardinality(Inside) = memory_max_threads
    /\ \E w \in Workers : AtGate(w)

\* C2: the i-th add_event call gives its document the index i-1, whatever the
\* workers have done since.
C2_IndicesInCallOrder ==
    /\ thought_idx = Len(add_threads)
    /\ \A i \in Workers :
        /\ add_threads[i].doc.extra_info.idx = i - 1
        /\ add_threads[i].doc.doc_id = str(i - 1)

\* Three calls were made, the last document's insert ended first and an earlier
\* one failed.
C2_Witness ==
    /\ Len(add_threads) >= 3
    /\ add_threads[3].pc = "done"
    /\ add_threads[2].pc = "failed"
    /\ add_threads[1].pc \in {"gate", "insert"}

\* C3: add_event can run to its return in every state, also with no free
\* permit and workers waiting at the gate; and when it returns, the insert of
\* its document has not been started: no permit is taken, the index is as it
\* was, and the new worker stands at the gate.
C3_AddEventNeverWaits ==
    /\ [](\A event \in Events : ENABLED add_event(event))
    /\ [][Len(add_threads') > Len(add_threads) =>
            /\ sema' = sema
            /\ index' = index
            /\ add_threads'[Len(add_threads')].pc = "gate"
            /\ add_threads'[Len(add_threads')].inserts = 0
            /\ caller'.op = "add_event" /\ caller'.exc = None
         ]_vars

\* add_event has returned while no permit is free, an earlier worker still
\* waits at the gate, and its own document's insert has not started.
C3_Witness ==
    /\ caller.op = "add_event"
    /\ sema = 0
    /\ Len(add_threads) >= 3
    /\ AtGate(Len(add_threads))
    /\ add_threads[Len(add_threads)].inserts = 0
    /\ \E w \in 1..(Len(add_threads) - 1) : AtGate(w)

\* A worker's failure is seen by nobody: the step that ends worker w with an
\* error changes what the step that ends it with success changes, and no more.
FailsQuietly(w) ==
    add_threads[w].pc = "insert" /\ add_threads'[w].pc = "failed" =>
        /\ sema' = sema + 1
        /\ thought_idx' = thought_idx
        /\ Len(add_threads') = Len(add_threads)
        /\ \A v \in Workers \ {w} : add_threads'[v] = add_threads[v]
        /\ add_threads'[w].doc = add_threads[w].doc
        /\ index' = index
        /\ caller'.op = caller.op /\ caller'.exc = caller.exc
        /\ caller'.ret = caller.ret

\* C6: a failed insert is not reported to the caller of add_event and is not
\* tried again: the error ends its own worker only, which stays ended, the
\* insert of a document is called at most once, and the counter, the registry
\* and the other workers are as after a successful insert.
C6_InsertFailureStaysInWorker ==
    [][ /\ \A w \in Workers :
            /\ FailsQuietly(w)
            /\ add_threads[w].pc = "failed" => add_threads'[w] = add_threads[w]
            /\ add_threads'[w].inserts <= 1
        /\ caller'.op = "add_event" => caller'.exc = None /\ caller'.ret = None
      ]_vars

\* A worker failed, add_event was called after that and returned, and a later
\* worker's insert succeeded.
C6_Witness ==
    \E w \in Workers :
        /\ add_threads[w].pc = "failed"
        /\ w < Len(add_threads)
        /\ caller.op = "add_event"
        /\ \E v \in Workers : v > w /\ add_threads[v].pc = "done"

\* One step of worker w.
add_doc(w) ==
    \/ add_doc_acquire(w)
    \/ add_doc_return(w)
    \/ \E e \in InsertErrors : add_doc_raise(w, e)

\* The threads that can run are not all held up for ever, and every
\* index.insert call returns or raises.
Fairness == WF_vars(\E w \in 1..MaxEvents : add_doc(w))

\* The calls of add_event and the workers' steps. A search changes caller
\* alone, which no step of a worker reads, so the searches are left out here.
LiveNext ==
    \/ \E event \in Events : thought_idx < MaxEvents /\ add_event(event)
    \/ \E w \in 1..MaxEvents : add_doc(w)

LiveSpec == Init /\ [][LiveNext]_vars /\ Fairness

\* A worker can take a step unless it waits at the gate with no permit free.
OnlyGateBlocks ==
    \A w \in Workers :
        /\ add_threads[w].pc = "insert" =>
               ENABLED add_doc(w)
        /\ add_threads[w].pc = "gate" => (ENABLED add_doc(w) <=> sema > 0)

\* C7: under fair scheduling every worker add_event started ends, its insert
\* having returned or raised; a worker waits nowhere but at the gate.
C7_WorkersTerminate ==
    /\ \A w \in 1..MaxEvents : [](w \in Workers => <>Terminated(w))
    /\ []OnlyGateBlocks

\* All workers have ended, one of them by an error, on a store with one permit.
C7_Witness ==
    /\ Len(add_threads) = MaxEvents
    /\ memory_max_threads = 1
    /\ \A w \in Workers : Terminated(w)
    /\ \E w \in Workers : add_threads[w].pc = "failed"

LastDoc == add_threads[Len(add_threads)].doc

\* C8: the document of an add_event call is tagged "action" and the value
\* under "action" when the event has that key, else "observation" and the
\* value under "observation" when it has that one, else with two empty texts;
\* and the example of the specification gives the two documents it names.
C8_TagsByKey ==
    /\ caller.op = "add_event" =>
        /\ HasKey(caller.event, "action") =>
               /\ LastDoc.extra_info.type = "action"
               /\ LastDoc.extra_info.id = Lookup(caller.event, "action")
        /\ ~HasKey(caller.event, "action") /\ HasKey(caller.event, "observation") =>
               /\ LastDoc.extra_info.type = "observation"
               /\ LastDoc.extra_info.id = Lookup(caller.event, "observation")
        /\ ~HasKey(caller.event, "action") /\ ~HasKey(caller.event, "observation") =>
               /\ LastDoc.extra_info.type = ""
               /\ LastDoc.extra_info.id = ""
    /\ ( /\ Len(add_threads) >= 2
         /\ add_threads[1].doc.text = "{\"action\": \"run_command\"}"
         /\ add_threads[2].doc.text = "{\"observation\": \"output: ok\"}" ) =>
        /\ add_threads[1].doc.extra_info =
               [type |-> "action", id |-> "run_command", idx |-> 0]
        /\ add_threads[2].doc.extra_info =
               [type |-> "observation", id |-> "output: ok", idx |-> 1]

\* The last call was add_event with an event holding both keys, after the two
\* calls of the example.
C8_Witness ==
    /\ Len(add_threads) = 3
    /\ add_threads[1].doc.text = "{\"action\": \"run_command\"}"
    /\ add_threads[2].doc.text = "{\"observation\": \"output: ok\"}"
    /\ caller.op = "add_event"
    /\ HasKey(caller.event, "action") /\ HasKey(caller.event, "observation")

\* The key add_event goes by: "action" if the event has it, else "observation".
TagKey(event) == IF HasKey(event, "action") THEN "action" ELSE "observation"

\* C16 as stated: for an event with an "action" key, or failing that an
\* "observation" key, the value under that key is recorded both as the kind
\* tag and as the source id of the document.
C16_ValueAsKindAndId ==
    caller.op = "add_event"
        /\ (HasKey(caller.event, "action") \/ HasKey(caller.event, "observation")) =>
        /\ LastDoc.extra_info.type = Lookup(caller.event, TagKey(caller.event))
        /\ LastDoc.extra_info.id = Lookup(caller.event, TagKey(caller.event))

\* C16: for an event with an "action" key, or failing that an "observation"
\* key, the name of that key is recorded as the kind tag and the value under
\* it as the source id; the two are the same text only for a value that
\* spells its own key.
C16_KeyAsKindValueAsId ==
    caller.op = "add_event"
        /\ (HasKey(caller.event, "action") \/ HasKey(caller.event, "observation")) =>
        /\ LastDoc.extra_info.type = TagKey(caller.event)
        /\ LastDoc.extra_info.id = Lookup(caller.event, TagKey(caller.event))
        /\ LastDoc.extra_info.type = LastDoc.extra_info.id
               <=> Lookup(caller.event, TagKey(caller.event)) = TagKey(caller.event)

\* add_event was called on {"action": "run_command"} and on an event whose
\* "observation" is the text "action".
C16_Witness ==
    /\ Len(add_threads) >= 2
    /\ add_threads[1].doc.extra_info.type = "action"
    /\ add_threads[1].doc.extra_info.id = "run_command"
    /\ caller.op = "add_event"
    /\ ~HasKey(caller.event, "action")
    /\ LastDoc.extra_info.type = "observation"
    /\ LastDoc.extra_info.id = "action"

\* The step is a call of search: the calling thread's last call becomes a search,
\* or another search than it was.
SearchStep ==
    /\ caller'.op = "search"
    /\ \/ caller.op # "search"
       \/ caller'.k # caller.k
       \/ caller'.exc # caller.exc
       \/ caller'.retrieved # caller.retrieved

\* C9: search takes and gives back no permit: it can run in every state, also
\* with no permit free, and a search leaves the permits, the counter and the
\* registry as they were.
C9_SearchOutsideGate ==
    /\ [](\A k \in 1..MaxK : ENABLED search(k))
    /\ [][SearchStep =>
            UNCHANGED <<memory_max_threads, sema, thought_idx, add_threads>>]_vars

\* A search returned documents while no permit was free and a worker waited at
\* the gate.
C9_Witness ==
    /\ caller.op = "search"
    /\ Len(caller.ret) > 0
    /\ sema = 0
    /\ \E w \in Workers : AtGate(w)

\* The documents of the registered threads, in the order of the registry.
Registry(threads) == [i \in 1..Len(threads) |-> threads[i].doc]

\* The step is one call of add_event: the counter goes up by one, one thread is
\* appended, and no worker, permit or index entry is touched.
AddEventStep ==
    /\ caller'.op = "add_event"
    /\ thought_idx' = thought_idx + 1
    /\ Len(add_threads') = Len(add_threads) + 1
    /\ \A w \in Workers : add_threads'[w] = add_threads[w]
    /\ sema' = sema
    /\ index' = index

\* C14: the counter and the registry change in calls of add_event only: a
\* step that changes either is a call of add_event, so no step of a worker
\* and no search changes them.
C14_OnlyAddEventWrites ==
    [][thought_idx' # thought_idx
         \/ Registry(add_threads') # Registry(add_threads) => AddEventStep]_vars

\* Three calls were made, one worker failed, one ended, one is in its insert,
\* a search ran, and the counter and the registry still stand at three.
C14_Witness ==
    /\ thought_idx = 3
    /\ Len(add_threads) = 3
    /\ \E w \in Workers : add_threads[w].pc = "failed"
    /\ \E w \in Workers : add_threads[w].pc = "done"
    /\ \E w \in Workers : add_threads[w].pc = "insert"
    /\ caller.op = "search"

\* C15: a call of add_event makes one document, from its event and the
\* counter as the call found it, and one worker for it; the document a worker
\* holds never changes afterwards, whatever later calls do to the counter;
\* index.insert is called at most once for a document, and what the index
\* holds are the documents of the workers whose insert returned.
C15_OneDocumentPerCall ==
    /\ [] /\ \A w \in Workers :
              /\ add_threads[w].inserts <= 1
              /\ add_threads[w].inserts = 0 <=> add_threads[w].pc = "gate"
          /\ index = {add_threads[w].doc : w \in {v \in Workers : add_threads[v].pc = "done"}}
          /\ \A v, w \in Workers : v # w => add_threads[v].doc # add_threads[w].doc
    /\ [][ /\ \A w \in Workers : add_threads'[w].doc = add_threads[w].doc
           /\ Len(add_threads') > Len(add_threads) =>
                /\ Len(add_threads') = Len(add_threads) + 1
                /\ add_threads'[Len(add_threads')].doc =
                       Document(caller'.event, thought_idx)
         ]_vars

\* The first call's worker is in its insert, with the document numbered 0,
\* after two more calls moved the counter to 3 and the second document's
\* insert returned.
C15_Witness ==
    /\ thought_idx = 3
    /\ Len(add_threads) = 3
    /\ add_threads[1].pc = "insert"
    /\ add_threads[1].doc.extra_info.idx = 0
    /\ add_threads[2].pc = "done"
    /\ add_threads[2].doc \in index
    /\ add_threads[3].pc = "gate"

\* C18: the free permits and the workers inside their insert add up to
\* memory_max_threads in every state; so when every worker has ended, by a
\* return or by an error, every permit is free, and a worker that comes to
\* the gate while no insert is under way gets a permit.
C18_PermitsConserved ==
    /\ sema + Cardinality(Inside) = memory_max_threads
    /\ sema >= 0
    /\ (\A w \in Workers : Terminated(w)) => sema = memory_max_threads
    /\ \A w \in Workers : AtGate(w) /\ Inside = {} => ENABLED add_doc_acquire(w)

\* As many inserts failed as there are permits, and the insert of a document
\* added after that returned, with every permit free again.
C18_Witness ==
    /\ Len(add_threads) = MaxEvents
    /\ Cardinality({w \in Workers : add_threads[w].pc = "failed"}) >= memory_max_threads
    /\ add_threads[MaxEvents].pc = "done"
    /\ \A w \in Workers : Terminated(w)
    /\ sema = memory_max_threads

\* C19: the registry is as long as the counter is high, and both count the
\* calls of add_event: a step leaves both as they were or is a call that
\* appends one thread and adds one to the counter; no thread is taken off the
\* registry when it ends or fails, and neither number goes down.
C19_RegistryCountsCalls ==
    /\ [](Len(add_threads) = thought_idx)
    /\ [][ \/ /\ thought_idx' = thought_idx
              /\ Len(add_threads') = Len(add_threads)
           \/ /\ thought_idx' = thought_idx + 1
              /\ Len(add_threads') = Len(add_threads) + 1
              /\ caller'.op = "add_event"
         ]_vars
    /\ [][\A w \in Workers : Terminated(w) =>
              w <= Len(add_threads') /\ add_threads'[w] = add_threads[w]]_vars

\* All of MaxEvents calls were made and every worker has ended, one by an
\* error; the registry still holds them all.
C19_Witness ==
    /\ thought_idx = MaxEvents
    /\ Len(add_threads) = MaxEvents
    /\ add_threads[1].pc = "failed"
    /\ \A w \in 2..MaxEvents : add_threads[w].pc = "done"

\* C13: search returns the texts of the results the index gave, one per
\* result and in the index's order, so at most k of them; a query that fails
\* raises its error to the caller of search, with nothing returned.
C13_SearchGivesTheRanking ==
    caller.op = "search" =>
        /\ caller.exc = None =>
            /\ Len(caller.ret) = Len(caller.retrieved)
            /\ Len(caller.ret) <= caller.k
            /\ \A i \in 1..Len(caller.retrieved) :
                /\ caller.ret[i] = caller.retrieved[i].text
                /\ caller.retrieved[i] \in index
            /\ \A i, j \in 1..Len(caller.retrieved) :
                i # j => caller.retrieved[i] # caller.retrieved[j]
        /\ caller.exc # None =>
            /\ caller.exc \in QueryErrors
            /\ caller.ret = None
            /\ caller.retrieved = <<>>

\* A search for the top MaxK of more documents returned MaxK texts, the first
\* another than the second.
C13_Witness ==
    /\ caller.op = "search"
    /\ caller.exc = None
    /\ caller.k = MaxK
    /\ Cardinality(index) > MaxK
    /\ Len(caller.ret) = MaxK
    /\ caller.ret[1] # caller.ret[2]

\* C12: where the indexing stack is not installed the constructor raises
\* ImportError and has created nothing by then: the instance has no index
\* handle, gate, counter or registry, and no add_event or search ever runs on
\* it; where the stack is installed the constructor creates all of them.
C12_NoStoreWithoutTheStack ==
    /\ ~LLAMA_INDEX_AVAILABLE =>
        /\ attrs = {}
        /\ sema = 0 /\ thought_idx = 0 /\ add_threads = <<>> /\ index = {}
        /\ caller.op \in {"none", "__init__"}
        /\ caller.op = "__init__" => caller.exc = "ImportError"
    /\ LLAMA_INDEX_AVAILABLE /\ caller.op # "none" =>
        /\ attrs = StoreAttrs
        /\ caller.exc # "ImportError"

\* The constructor was called without the stack and raised.
C12_Witness ==
    /\ ~LLAMA_INDEX_AVAILABLE
    /\ caller.op = "__init__"
    /\ caller.exc = "ImportError"
    /\ attrs = {}

\* ---------------------------------------------------------------- claims: the retry wrapper

\* C4: a call through the wrapper makes at most num_retries attempts; it
\* returns at the first attempt that succeeds, gives up on a transient error
\* only at attempt num_retries, and then raises that attempt's error.
C4_RetryUpToN ==
    /\ retry_state.attempt_number <= num_retries
    /\ retry_state.slept = retry_state.attempt_number - 1
    /\ retry_state.pc = "returned" =>
        /\ retry_state.outcome = "ok"
        /\ retry_state.result = "embeddings"
    /\ retry_state.pc = "raised" /\ retry_state.exc \in TransientErrors =>
        /\ retry_state.attempt_number = num_retries
        /\ retry_state.exc = retry_state.outcome
        /\ retry_state.logged = <<retry_state.exc, num_retries>>
    /\ retry_state.pc = "raised" => retry_state.exc \in Errors

\* The tenth of ten attempts failed with a transient error, which was raised.
C4_Witness ==
    /\ num_retries = NumRetriesDefault
    /\ retry_state.pc = "raised"
    /\ retry_state.attempt_number = NumRetriesDefault
    /\ retry_state.exc \in TransientErrors

\* C5: an attempt's error outside the three transient classes is raised to
\* the caller at once: no wait and no further attempt follow it, on whichever
\* attempt it comes.
C5_OtherErrorNotRetried ==
    [][retry_state.pc = "iter" /\ retry_state.outcome \in OtherErrors =>
        /\ retry_state'.pc = "raised"
        /\ retry_state'.exc = retry_state.outcome
        /\ retry_state'.attempt_number = retry_state.attempt_number
        /\ retry_state'.slept = retry_state.slept
        /\ retry_state'.sleep = retry_state.sleep
      ]_vars

\* After transient failures an attempt raised another error, which the caller
\* got.
C5_Witness ==
    /\ retry_state.pc = "raised"
    /\ retry_state.exc \in OtherErrors
    /\ retry_state.attempt_number > 1
    /\ retry_state.attempt_number < num_retries

RetryStart == RetryInit /\ MemIdle /\ EvIdle

RetrySpec == RetryStart /\ [][RetryNext]_vars

\* ---------------------------------------------------------------- Event

message(e) == IF e._message # <<>> THEN e._message[1] ELSE ""

\* id falling back to 0 instead of -1.
id_zero_default(e) == IF e._id # <<>> THEN e._id[1] ELSE 0

id(e) == IF e._id # <<>> THEN e._id[1] ELSE -1

timestamp(e) == IF e._timestamp # <<>> THEN e._timestamp[1] ELSE PyNone

source(e) == IF e._source # <<>> THEN e._source[1] ELSE PyNone

cause(e) == IF e._cause # <<>> THEN e._cause[1] ELSE PyNone

timeout(e) == IF e._timeout # <<>> THEN e._timeout[1] ELSE PyNone

\* The values a timeout is given: None, or a number of seconds.
TimeoutValues == {PyNone} \cup {Some(t) : t \in 0..MaxTimeout}

\* An instance of a concrete event type: each backing field set or not, and a
\* blocking attribute or none.
EvInit ==
    /\ ev \in [ _message : {<<>>, <<"hi">>},
                _id : {<<>>, <<7>>},
                _timestamp : {<<>>, <<Some("t1")>>},
                _source : {<<>>, <<Some("agent")>>, <<Some("user")>>},
                _cause : {<<>>, <<Some(7)>>},
                _timeout : {<<>>} \cup {<<v>> : v \in TimeoutValues},
                blocking : {<<>>, <<TRUE>>, <<FALSE>>} ]
    /\ ev_op = [name |-> "none", value |-> PyNone]

\* The setter without the hasattr check.
timeout_setter_unchecked(value) ==
    /\ ev' = [ev EXCEPT !._timeout = <<value>>, !.blocking = <<TRUE>>]
    /\ ev_op' = [name |-> "timeout.setter", value |-> value]
    /\ UNCHANGED <<ctorVars, memVars, retryVars>>

\* A setter that makes the event blocking only for a timeout that is not None.
timeout_setter_by_value(value) ==
    /\ ev' = IF ev.blocking # <<>>
             THEN [ev EXCEPT !._timeout = <<value>>, !.blocking = <<value # PyNone>>]
             ELSE [ev EXCEPT !._timeout = <<value>>]
    /\ ev_op' = [name |-> "timeout.setter", value |-> value]
    /\ UNCHANGED <<ctorVars, memVars, retryVars>>

\* event.timeout = value
timeout_setter(value) ==
    /\ ev' = IF ev.blocking # <<>>
             THEN [ev EXCEPT !._timeout = <<value>>, !.blocking = <<TRUE>>]
             ELSE [ev EXCEPT !._timeout = <<value>>]
    /\ ev_op' = [name |-> "timeout.setter", value |-> value]
    /\ UNCHANGED <<ctorVars, memVars, retryVars>>

\* A read of one accessor.
read(name, value) ==
    /\ ev_op' = [name |-> name, value |-> value]
    /\ UNCHANGED <<ctorVars, ev, memVars, retryVars>>

EvNext ==
    \/ \E value \in TimeoutValues : timeout_setter(value)
    \/ read("message", message(ev))
    \/ read("id", id(ev))
    \/ read("timestamp", timestamp(ev))
    \/ read("source", source(ev))
    \/ read("cause", cause(ev))
    \/ read("timeout", timeout(ev))

\* ---------------------------------------------------------------- claims: Event

\* C10: a write of timeout sets blocking to true exactly on an instance that
\* has a blocking attribute, and creates none on one that has not; timeout
\* then reads back the value written, and no other field changes.
C10_TimeoutSetsBlocking ==
    [][ev_op'.name = "timeout.setter" =>
        /\ ev.blocking # <<>> => ev'.blocking = <<TRUE>>
        /\ ev.blocking = <<>> => ev'.blocking = <<>>
        /\ timeout(ev') = ev_op'.value
        /\ \A f \in {"_message", "_id", "_timestamp", "_source", "_cause"} :
               ev'[f] = ev[f]
      ]_vars

\* A timeout was written on an instance with a blocking attribute.
C10_Witness ==
    /\ ev_op.name = "timeout.setter"
    /\ ev_op.value = Some(MaxTimeout)
    /\ ev.blocking = <<TRUE>>
    /\ timeout(ev) = Some(MaxTimeout)

\* The read accessors and the backing field of each.
Accessors == {"message", "id", "timestamp", "source", "cause", "timeout"}

\* What the last read returned is the backing value of field f where the
\* instance has one, else the default d.
ReadGave(f, d) == ev_op.value = IF ev[f] # <<>> THEN ev[f][1] ELSE d

\* C11: whichever backing fields are set, a read of an accessor returns the
\* backing value where it is set and else the default: the empty text for
\* message, -1 for id, None for timestamp, source, cause and timeout; and a
\* read leaves the event as it was.
C11_ReadsBackingOrDefault ==
    /\ [] /\ ev_op.name = "message" => ReadGave("_message", "")
          /\ ev_op.name = "id" => ReadGave("_id", -1)
          /\ ev_op.name = "timestamp" => ReadGave("_timestamp", PyNone)
          /\ ev_op.name = "source" => ReadGave("_source", PyNone)
          /\ ev_op.name = "cause" => ReadGave("_cause", PyNone)
          /\ ev_op.name = "timeout" => ReadGave("_timeout", PyNone)
    /\ [][ev_op'.name \in Accessors => ev' = ev]_vars

\* id was read as -1 on an instance with a message and a source but no id.
C11_Witness ==
    /\ ev_op.name = "id"
    /\ ev_op.value = -1
    /\ ev._id = <<>>
    /\ ev._message # <<>> /\ ev._source # <<>>
    /\ ev._timestamp = <<>>

\* C20: a write of timeout makes an instance that has a blocking attribute
\* blocking whatever the value written, None included; and once blocking is
\* true no write of timeout makes it false.
C20_BlockingWhateverTheValue ==
    /\ [][ev_op'.name = "timeout.setter" /\ ev.blocking # <<>> =>
            ev'.blocking = <<TRUE>>]_vars
    /\ [][ev.blocking = <<TRUE>> => ev'.blocking = <<TRUE>>]_vars

\* None was written to timeout on an instance that has a blocking attribute,
\* which is true.
C20_Witness ==
    /\ ev_op.name = "timeout.setter"
    /\ ev_op.value = PyNone
    /\ ev._timeout = <<PyNone>>
    /\ ev.blocking = <<TRUE>>

EventStart == EvInit /\ MemIdle /\ RetryIdle

EventSpec == EventStart /\ [][EvNext]_vars

====
